---- MODULE Spec2Model ----
(***************************************************************************)
(* A model of src/sketch2mask/metrics.py: the overlap metric compute_miou,  *)
(* the ranking metric compute_ap with precision_recall_curve_torch, the     *)
(* feature builder extract_features and the two distributional distances    *)
(* calculate_fid and calculate_kid.                                          *)
(*                                                                           *)
(* Numbers that the code holds in floating point are modelled as exact       *)
(* rationals [nan, num, den] in lowest terms; NaN is a value of its own.     *)
(* Tensors are modelled flattened, as sequences of cells: every tensor       *)
(* operation the code applies (==, &, |, sum, cumsum) is elementwise or a    *)
(* reduction over all cells.                                                 *)
(***************************************************************************)
EXTENDS Integers, Sequences, FiniteSets, TLC

VARIABLES
    pc,             \* position of the running call
    outcome,        \* "running", "return", or the exception raised
    \* ---- compute_miou
    pred_masks, true_masks, num_classes, cls, iou_per_class, miou,
    \* ---- compute_ap
    n_real_masks,   \* len(real_masks)
    n_pred_probs,   \* len(pred_probs)
    real, pred,     \* the pair the loop holds: labels per pixel, probabilities per pixel and class
    sorted_indices, \* per class, the order argsort returned for the pair
    sample_ap, sample_aps, ap_score, total_samples,
    \* ---- extract_features, calculate_fid, calculate_kid
    fn,             \* the distance being computed: "fid" or "kid"
    real_dir,       \* the files under real_images_folder, in traversal order
    gen_dir,        \* the files under gen_images_folder, in traversal order
    folder,         \* the folder whose features are being extracted
    image_files, img_pos, features,
    real_features, gen_features,
    log,            \* the file-system accesses made so far, in order
    fid_score,
    num_subsets, max_subset_size, m, n, t, subset, idx_real, idx_gen, kid_score

varsMiou == <<pred_masks, true_masks, num_classes, cls, iou_per_class, miou>>
varsAp == <<n_real_masks, n_pred_probs, real, pred, sorted_indices,
            sample_ap, sample_aps, ap_score, total_samples>>
varsDist == <<fn, real_dir, gen_dir, folder, image_files, img_pos, features,
              real_features, gen_features, log, fid_score,
              num_subsets, max_subset_size, m, n, t, subset, idx_real, idx_gen,
              kid_score>>
vars == <<pc, outcome, varsMiou, varsAp, varsDist>>

----------------------------------------------------------------------------
(* Bounds of the model *)

MaxCells == 4
MaxClasses == 2
Labels == {0, 1, 2}
MaxSamples == 2
MaxPix == 2
ClassCounts == {1, 2}
Probs == {0, 1}
MaxFiles == 2
MaxRows == 3
MaxFeat == 1
FeatDim == 1
MaxSubsets == 2

----------------------------------------------------------------------------
(* Exact arithmetic standing for the code's floats *)

Abs(x) == IF x < 0 THEN -x ELSE x

RECURSIVE Gcd(_, _)
Gcd(a, b) == IF b = 0 THEN a ELSE Gcd(b, a % b)

NaN == [nan |-> TRUE, num |-> 0, den |-> 1]
NoValue == [nan |-> TRUE, num |-> 0, den |-> 0]

\* nu / de in lowest terms, de # 0
Rat(nu, de) ==
    LET g == Gcd(Abs(nu), Abs(de))
        s == IF de < 0 THEN -1 ELSE 1
    IN  [nan |-> FALSE, num |-> (s * nu) \div g, den |-> (s * de) \div g]

Zero == Rat(0, 1)
RAdd(a, b) == Rat(a.num * b.den + b.num * a.den, a.den * b.den)
RSub(a, b) == Rat(a.num * b.den - b.num * a.den, a.den * b.den)
RMul(a, b) == Rat(a.num * b.num, a.den * b.den)
RDiv(a, b) == Rat(a.num * b.den, a.den * b.num)
RLeq(a, b) == a.num * b.den <= b.num * a.den

RECURSIVE RSumSeq(_)
RSumSeq(s) == IF s = <<>> THEN Zero ELSE RAdd(Head(s), RSumSeq(Tail(s)))

RECURSIVE SumSeq(_)
SumSeq(s) == IF s = <<>> THEN 0 ELSE Head(s) + SumSeq(Tail(s))

----------------------------------------------------------------------------
(* The variables of a function that is not the one running *)

IdleMiou ==
    /\ pred_masks = <<>>
    /\ true_masks = <<>>
    /\ num_classes = 0
    /\ cls = 0
    /\ iou_per_class = <<>>
    /\ miou = NoValue

IdleAp ==
    /\ n_real_masks = 0
    /\ n_pred_probs = 0
    /\ real = <<>>
    /\ pred = <<>>
    /\ sorted_indices = <<>>
    /\ sample_ap = NoValue
    /\ sample_aps = <<>>
    /\ ap_score = Zero
    /\ total_samples = 0

----------------------------------------------------------------------------
IdleKid ==
    /\ num_subsets = 0
    /\ max_subset_size = 0
    /\ m = 0
    /\ n = 0
    /\ t = Zero
    /\ subset = 0
    /\ idx_real = <<>>
    /\ idx_gen = <<>>
    /\ kid_score = NoValue

IdleDist ==
    /\ fn = "none"
    /\ real_dir = <<>>
    /\ gen_dir = <<>>
    /\ folder = "none"
    /\ image_files = <<>>
    /\ img_pos = 0
    /\ features = <<>>
    /\ real_features = <<>>
    /\ gen_features = <<>>
    /\ log = <<>>
    /\ fid_score = <<>>
    /\ IdleKid

----------------------------------------------------------------------------
(* compute_miou *)

\* (pred_masks == cls), a boolean mask
EqMask(mask, c) == [k \in 1..Len(mask) |-> mask[k] = c]
AndMask(a, b) == [k \in 1..Len(a) |-> a[k] /\ b[k]]
OrMask(a, b) == [k \in 1..Len(a) |-> a[k] \/ b[k]]
\* mask.sum().item()
CountMask(a) == SumSeq([k \in 1..Len(a) |-> IF a[k] THEN 1 ELSE 0])

\* ClassIoU with a fault: a class absent from both grids scores 0
ClassIoUZeroWhenAbsent(pm, tm, c) ==
    LET pred_cls == EqMask(pm, c)
        true_cls == EqMask(tm, c)
        intersection == CountMask(AndMask(pred_cls, true_cls))
        union == CountMask(OrMask(pred_cls, true_cls))
    IN  IF union = 0 THEN Zero ELSE Rat(intersection, union)

\* the body of the loop over classes: the IoU of one class, NaN when its
\* union is empty
ClassIoU(pm, tm, c) ==
    LET pred_cls == EqMask(pm, c)
        true_cls == EqMask(tm, c)
        intersection == CountMask(AndMask(pred_cls, true_cls))
        union == CountMask(OrMask(pred_cls, true_cls))
    IN  IF union = 0 THEN NaN ELSE Rat(intersection, union)

SelectNotNaN(s) == SelectSeq(s, LAMBDA v : ~v.nan)

\* NanMean with a fault: NaN entries count as 0 in the mean
NanMeanAsZero(s) ==
    IF Len(s) = 0 THEN NaN
    ELSE RDiv(RSumSeq(SelectNotNaN(s)), Rat(Len(s), 1))

\* np.nanmean: the sum of the entries that are not NaN over their count; NaN
\* (and a warning, no exception) when there is none
NanMean(s) ==
    LET kept == SelectNotNaN(s)
    IN  IF Len(kept) = 0 THEN NaN
        ELSE RDiv(RSumSeq(kept), Rat(Len(kept), 1))

Grids(len) == [1..len -> Labels]

InitMiou ==
    /\ pc = "miou_loop"
    /\ outcome = "running"
    /\ \E len \in 0..MaxCells :
         /\ pred_masks \in Grids(len)
         /\ true_masks \in Grids(len)
    /\ num_classes \in 0..MaxClasses
    /\ cls = 0
    /\ iou_per_class = <<>>
    /\ miou = NoValue
    /\ IdleAp
    /\ IdleDist

\* one iteration of "for cls in range(num_classes)"
MiouClass ==
    /\ pc = "miou_loop"
    /\ cls < num_classes
    /\ iou_per_class' = Append(iou_per_class, ClassIoU(pred_masks, true_masks, cls))
    /\ cls' = cls + 1
    /\ UNCHANGED <<pc, outcome, pred_masks, true_masks, num_classes, miou>>
    /\ UNCHANGED <<varsAp, varsDist>>

\* the loop is exhausted: miou = np.nanmean(iou_per_class); return miou
MiouReturn ==
    /\ pc = "miou_loop"
    /\ cls >= num_classes
    /\ miou' = NanMean(iou_per_class)
    /\ pc' = "done"
    /\ outcome' = "return"
    /\ UNCHANGED <<pred_masks, true_masks, num_classes, cls, iou_per_class>>
    /\ UNCHANGED <<varsAp, varsDist>>

NextMiou == MiouClass \/ MiouReturn

SpecMiou == InitMiou /\ [][NextMiou]_vars

----------------------------------------------------------------------------
(* precision_recall_curve_torch and compute_ap *)

\* the classes of a probability grid: range(pred.size(1))
ClassesOf(p) == 0..(Len(p[1]) - 1)

\* torch.nn.functional.one_hot(real_flat, num_classes): per pixel, per class
OneHot(r, C) == [k \in 1..Len(r) |-> [c \in 0..(C - 1) |-> IF r[k] = c THEN 1 ELSE 0]]

\* the orders torch.argsort(pred, descending=True) may return for one class:
\* every permutation of the pixels along which the probability never rises
\* (the sort is not stable, so the order of equal probabilities is open)
Argsorts(p, c) ==
    {o \in [1..Len(p) -> 1..Len(p)] :
        /\ \A i, j \in 1..Len(p) : i # j => o[i] # o[j]
        /\ \A i \in 1..(Len(p) - 1) : p[o[i]][c + 1] >= p[o[i + 1]][c + 1]}

\* real = real_one_hot[:, class_idx][sorted_indices]
SortedReal(oh, o, c) == [i \in 1..Len(oh) |-> oh[o[i]][c]]

\* torch.cumsum(x, dim=0)
RECURSIVE CumSum(_)
CumSum(x) ==
    IF x = <<>> THEN <<>>
    ELSE LET front == CumSum(SubSeq(x, 1, Len(x) - 1))
         IN  Append(front, (IF front = <<>> THEN 0 ELSE front[Len(front)]) + x[Len(x)])

\* v / (d + 1e-8) in float32, for integers 0 <= v <= d: the epsilon is below
\* half the float32 spacing at every d >= 1 and leaves the quotient v / d; at
\* d = 0 the numerator is 0 and the quotient is 0 / 1e-8 = 0
DivEps(v, d) == IF d = 0 THEN Zero ELSE Rat(v, d)

\* precision = tp / (tp + fp + 1e-8) of one class, per rank
ClassPrecision(oh, o, c) ==
    LET r == SortedReal(oh, o, c)
        tp == CumSum(r)
        fp == CumSum([i \in 1..Len(r) |-> 1 - r[i]])
    IN  [i \in 1..Len(r) |-> DivEps(tp[i], tp[i] + fp[i])]

\* recall = tp / (real.sum() + 1e-8) of one class, per rank
ClassRecall(oh, o, c) ==
    LET r == SortedReal(oh, o, c)
        tp == CumSum(r)
    IN  [i \in 1..Len(r) |-> DivEps(tp[i], SumSeq(r))]

RECURSIVE RSumFun(_, _)
RSumFun(f, S) ==
    IF S = {} THEN Zero
    ELSE LET c == CHOOSE x \in S : TRUE
         IN  RAdd(f[c], RSumFun(f, S \ {c}))

\* torch.stack(list, dim=0).mean(dim=0) over the classes of S: per rank, the
\* mean of the classes' values
StackMean(S, curves, len) ==
    [i \in 1..len |-> RDiv(RSumFun([c \in S |-> curves[c][i]], S),
                         Rat(Cardinality(S), 1))]

\* precision_recall_curve_torch: the class-averaged precision and recall
PrecisionOf(oh, ord, C) ==
    StackMean(0..(C - 1), [c \in 0..(C - 1) |-> ClassPrecision(oh, ord[c], c)], Len(oh))

RecallOf(oh, ord, C) ==
    StackMean(0..(C - 1), [c \in 0..(C - 1) |-> ClassRecall(oh, ord[c], c)], Len(oh))

\* torch.trapz(y, x): the trapezoidal rule over consecutive points
RECURSIVE Trapz(_, _)
Trapz(y, x) ==
    IF Len(x) < 2 THEN Zero
    ELSE RAdd(RMul(RSub(x[2], x[1]), RDiv(RAdd(y[1], y[2]), Rat(2, 1))),
              Trapz(Tail(y), Tail(x)))

\* the AP of one pair, lines 168 to 178
SampleAP(r, p, ord) ==
    LET C == Len(p[1])
        oh == OneHot(r, C)
    IN  Trapz(PrecisionOf(oh, ord, C), RecallOf(oh, ord, C))

InitAp ==
    /\ pc = "ap_loop"
    /\ outcome = "running"
    /\ n_real_masks \in 0..MaxSamples
    /\ n_pred_probs \in 0..MaxSamples
    /\ real = <<>>
    /\ pred = <<>>
    /\ sorted_indices = <<>>
    /\ sample_ap = NoValue
    /\ sample_aps = <<>>
    /\ ap_score = Zero
    /\ total_samples = 0
    /\ IdleMiou
    /\ IdleDist

\* ZipHasNext with a fault: the loop runs over the ground-truth list alone
ZipOverReal(k) == k < n_real_masks

\* zip(real_masks, pred_probs) yields a k+1-th pair
ZipHasNext(k) == k < n_real_masks /\ k < n_pred_probs

\* one iteration of the loop over zip(real_masks, pred_probs): the pair at
\* this position is read, its AP computed and accumulated
ApSample ==
    /\ pc = "ap_loop"
    /\ ZipHasNext(total_samples)
    /\ \E npix \in 1..MaxPix, C \in ClassCounts :
         /\ real' \in [1..npix -> 0..(C - 1)]
         /\ pred' \in [1..npix -> [1..C -> Probs]]
         /\ sorted_indices' \in
              {ord \in [0..(C - 1) -> [1..npix -> 1..npix]] :
                  \A c \in 0..(C - 1) : ord[c] \in Argsorts(pred', c)}
    /\ sample_ap' = SampleAP(real', pred', sorted_indices')
    /\ ap_score' = RAdd(ap_score, sample_ap')
    /\ sample_aps' = Append(sample_aps, sample_ap')
    /\ total_samples' = total_samples + 1
    /\ UNCHANGED <<pc, outcome, n_real_masks, n_pred_probs>>
    /\ UNCHANGED <<varsMiou, varsDist>>

\* MeanAP with a fault: the accumulated score is returned undivided
MeanAPUndivided(score, count) == score

\* the final division: ap_score /= total_samples when total_samples > 0
MeanAP(score, count) == IF count > 0 THEN RDiv(score, Rat(count, 1)) ELSE score

\* the loop is exhausted: the mean is taken and returned
ApReturn ==
    /\ pc = "ap_loop"
    /\ ~ZipHasNext(total_samples)
    /\ ap_score' = MeanAP(ap_score, total_samples)
    /\ pc' = "done"
    /\ outcome' = "return"
    /\ UNCHANGED <<n_real_masks, n_pred_probs, real, pred, sorted_indices,
                   sample_ap, sample_aps, total_samples>>
    /\ UNCHANGED <<varsMiou, varsDist>>

NextAp == ApSample \/ ApReturn

SpecAp == InitAp /\ [][NextAp]_vars

----------------------------------------------------------------------------
(* extract_features *)

\* file names, as sequences of characters
NameUpperPng == <<"a", ".", "P", "N", "G">>
NameTxt == <<"c", ".", "t", "x", "t">>
Names == {NameUpperPng, NameTxt}

\* str.lower() on the characters of the names
LowerChar(ch) ==
    CASE ch = "P" -> "p"
      [] ch = "N" -> "n"
      [] ch = "G" -> "g"
      [] OTHER -> ch
Lower(name) == [k \in 1..Len(name) |-> LowerChar(name[k])]

\* str.endswith(suffix)
EndsWith(name, suffix) ==
    /\ Len(name) >= Len(suffix)
    /\ SubSeq(name, Len(name) - Len(suffix) + 1, Len(name)) = suffix

ImageSuffixes == {<<"p", "n", "g">>, <<"j", "p", "g">>, <<"j", "p", "e", "g">>}

\* file.lower().endswith(('png', 'jpg', 'jpeg'))
IsImageFile(name) == \E sfx \in ImageSuffixes : EndsWith(Lower(name), sfx)

\* ListImageFiles with a fault: subdirectories are searched in both modes
ListImageFilesAlwaysRecursive(dir, recursive) ==
    SelectSeq(dir, LAMBDA e : IsImageFile(e.name))

\* lines 19 to 27: the files of the folder with an image extension, from all
\* subdirectories when recursive and from the top level alone otherwise
ListImageFiles(dir, recursive) ==
    SelectSeq(dir, LAMBDA e : IsImageFile(e.name) /\ (recursive \/ ~e.sub))

\* the embedding network, an opaque function of the image
Embed(content) == [j \in 1..FeatDim |-> content * j]

\* the folder a call of extract_features reads, and its recursive flag
DirOf(f) == IF f = "real" THEN real_dir ELSE gen_dir
Recursive(f) == f = "real"

\* the directory listings of at most maxLen files: os.walk yields the top
\* level's files before those of the subdirectories; only a file with an
\* image name can decode; the image of the k-th file is image k
ListingShapes(len) ==
    {d \in [1..len -> [name : Names, sub : BOOLEAN, decodes : BOOLEAN]] :
        /\ \A k \in 1..(len - 1) : d[k].sub => d[k + 1].sub
        /\ \A k \in 1..len : d[k].decodes => IsImageFile(d[k].name)}

Listings(maxLen) ==
    UNION {
      {[k \in 1..len |-> [name |-> d[k].name, sub |-> d[k].sub,
                          decodes |-> d[k].decodes, content |-> k]]
          : d \in ListingShapes(len)}
      : len \in 0..maxLen}

ErrNoFiles == "ValueError: No image files found"
ErrNoFeatures == "ValueError: Unable to extract features"
ErrFewSamples == "ValueError: Not enough samples to compute KID"
ErrZeroDivision == "ZeroDivisionError"
EmptyInputError == {ErrNoFiles, ErrNoFeatures}

\* extract_features, lines 19 to 32: the folder is enumerated; with no image
\* file the call raises, otherwise the loop over the files starts
ListFiles ==
    /\ pc = "list"
    /\ log' = Append(log, <<"list", folder>>)
    /\ LET files == ListImageFiles(DirOf(folder), Recursive(folder))
       IN  /\ image_files' = files
           /\ IF Len(files) = 0
              THEN /\ pc' = "done"
                   /\ outcome' = ErrNoFiles
              ELSE /\ pc' = "loop"
                   /\ outcome' = outcome
    /\ img_pos' = 0
    /\ features' = <<>>
    /\ UNCHANGED <<fn, real_dir, gen_dir, folder, real_features, gen_features,
                   fid_score, num_subsets, max_subset_size, m, n, t, subset,
                   idx_real, idx_gen, kid_score>>
    /\ UNCHANGED <<varsMiou, varsAp>>

\* AfterFile with a fault: a file that fails to decode is given a zero row
AfterFileKeepFailed(feats, e) ==
    IF e.decodes THEN Append(feats, Embed(e.content)) ELSE Append(feats, Embed(0))

\* lines 36 to 42: the features after one file; an exception in decoding or
\* embedding is caught and the file contributes nothing
AfterFile(feats, e) ==
    IF e.decodes THEN Append(feats, Embed(e.content)) ELSE feats

\* one iteration of the loop over image_files
ProcessFile ==
    /\ pc = "loop"
    /\ img_pos < Len(image_files)
    /\ log' = Append(log, <<"open", folder, img_pos + 1>>)
    /\ features' = AfterFile(features, image_files[img_pos + 1])
    /\ img_pos' = img_pos + 1
    /\ UNCHANGED <<pc, outcome>>
    /\ UNCHANGED <<fn, real_dir, gen_dir, folder, image_files, real_features,
                   gen_features, fid_score, num_subsets, max_subset_size, m, n,
                   t, subset, idx_real, idx_gen, kid_score>>
    /\ UNCHANGED <<varsMiou, varsAp>>

\* lines 44 to 47 and the caller's next statement: with no feature the call
\* raises; otherwise the matrix is returned to calculate_fid / calculate_kid,
\* which extracts the generated folder after the real one
FinishExtract ==
    /\ pc = "loop"
    /\ img_pos >= Len(image_files)
    /\ IF Len(features) = 0
       THEN /\ pc' = "done"
            /\ outcome' = ErrNoFeatures
            /\ UNCHANGED <<folder, real_features, gen_features>>
       ELSE /\ outcome' = outcome
            /\ IF folder = "real"
               THEN /\ real_features' = features
                    /\ folder' = "gen"
                    /\ pc' = "list"
                    /\ UNCHANGED gen_features
               ELSE /\ gen_features' = features
                    /\ pc' = fn
                    /\ UNCHANGED <<folder, real_features>>
    /\ UNCHANGED <<fn, real_dir, gen_dir, image_files, img_pos, features, log,
                   fid_score, num_subsets, max_subset_size, m, n, t, subset,
                   idx_real, idx_gen, kid_score>>
    /\ UNCHANGED <<varsMiou, varsAp>>

----------------------------------------------------------------------------
(* calculate_fid *)

\* lines 73 to 84: the Frechet distance of the two feature matrices, kept
\* as an uninterpreted term of its two arguments
FrechetDistance(rf, gf) == <<"fid", rf, gf>>

InitFid ==
    /\ pc = "list"
    /\ outcome = "running"
    /\ fn = "fid"
    /\ real_dir \in Listings(MaxFiles)
    /\ gen_dir \in Listings(MaxFiles)
    /\ folder = "real"
    /\ image_files = <<>>
    /\ img_pos = 0
    /\ features = <<>>
    /\ real_features = <<>>
    /\ gen_features = <<>>
    /\ log = <<>>
    /\ fid_score = <<>>
    /\ IdleKid
    /\ IdleMiou
    /\ IdleAp

\* lines 73 to 86
FidReturn ==
    /\ pc = "fid"
    /\ fid_score' = FrechetDistance(real_features, gen_features)
    /\ pc' = "done"
    /\ outcome' = "return"
    /\ UNCHANGED <<fn, real_dir, gen_dir, folder, image_files, img_pos, features,
                   real_features, gen_features, log, num_subsets,
                   max_subset_size, m, n, t, subset, idx_real, idx_gen, kid_score>>
    /\ UNCHANGED <<varsMiou, varsAp>>

NextFid == ListFiles \/ ProcessFile \/ FinishExtract \/ FidReturn

SpecFid == InitFid /\ [][NextFid]_vars

----------------------------------------------------------------------------
(* calculate_kid *)

Min3(a, b, c) ==
    IF a <= b /\ a <= c THEN a ELSE IF b <= c THEN b ELSE c

\* SubsetSize with a fault: max_subset_size does not cap the subset
SubsetSizeUncapped(num_real, num_gen, cap) == Min3(num_real, num_gen, num_gen)

\* line 116: m = min(num_real, num_gen, max_subset_size)
SubsetSize(num_real, num_gen, cap) == Min3(num_real, num_gen, cap)

\* np.dot of two feature rows
Dot(x, y) == SumSeq([j \in 1..Len(x) |-> x[j] * y[j]])

\* the polynomial kernel (x.y / n + 1) ** 3 = (x.y + n) ** 3 / n ** 3, as
\* its numerator over the denominator n ** 3 that all entries share
Cube(v) == v * v * v
Kernel(x, y, dim) == Cube(Dot(x, y) + dim)

\* (np.dot(X, Y.T) / n + 1) ** 3, every entry over n ** 3
KernelMatrix(X, Y, dim) ==
    [i \in 1..Len(X) |-> [j \in 1..Len(Y) |-> Kernel(X[i], Y[j], dim)]]

MatAdd(A, B) == [i \in 1..Len(A) |-> [j \in 1..Len(A[i]) |-> A[i][j] + B[i][j]]]
MatSum(A) == SumSeq([i \in 1..Len(A) |-> SumSeq(A[i])])

\* Trace with a fault: the first diagonal entry stands for all of them
TraceFromFirstEntry(A) == Len(A) * A[1][1]

\* np.trace
Trace(A) == SumSeq([i \in 1..Len(A) |-> A[i][i]])

\* lines 133 to 137: the estimate of one subset, x the sampled generated
\* rows and y the sampled real rows:
\* (a.sum() - np.trace(a)) / (m - 1) - 2 * b.sum() / m
SubsetEstimate(x, y, dim) ==
    LET mm == Len(x)
        a == MatAdd(KernelMatrix(x, x, dim), KernelMatrix(y, y, dim))
        b == KernelMatrix(x, y, dim)
    IN  RSub(RDiv(Rat(MatSum(a) - Trace(a), Cube(dim)), Rat(mm - 1, 1)),
             RDiv(Rat(2 * MatSum(b), Cube(dim)), Rat(mm, 1)))

\* np.random.choice(N, k, replace=False): every sequence of k distinct row
\* indices (rows are numbered from 1 here)
Choices(N, k) ==
    {s \in [1..k -> 1..N] : \A i, j \in 1..k : i # j => s[i] # s[j]}

\* features[idx]
Rows(F, idx) == [k \in 1..Len(idx) |-> F[idx[k]]]

\* lines 114 to 124: the subset size is fixed; fewer than two samples raise
KidSubsetSize ==
    /\ pc = "kid"
    /\ LET size == SubsetSize(Len(real_features), Len(gen_features), max_subset_size)
       IN  /\ m' = size
           /\ IF size < 2
              THEN /\ pc' = "done"
                   /\ outcome' = ErrFewSamples
                   /\ UNCHANGED n
              ELSE /\ pc' = "kid_loop"
                   /\ outcome' = outcome
                   /\ n' = Len(real_features[1])
    /\ t' = Zero
    /\ UNCHANGED <<fn, real_dir, gen_dir, folder, image_files, img_pos, features,
                   real_features, gen_features, log, fid_score, num_subsets,
                   max_subset_size, subset, idx_real, idx_gen, kid_score>>
    /\ UNCHANGED <<varsMiou, varsAp>>

\* one iteration of "for _ in range(num_subsets)"
KidSubset ==
    /\ pc = "kid_loop"
    /\ subset < num_subsets
    /\ idx_real' \in Choices(Len(real_features), m)
    /\ idx_gen' \in Choices(Len(gen_features), m)
    /\ t' = RAdd(t, SubsetEstimate(Rows(gen_features, idx_gen'),
                                   Rows(real_features, idx_real'), n))
    /\ subset' = subset + 1
    /\ UNCHANGED <<pc, outcome>>
    /\ UNCHANGED <<fn, real_dir, gen_dir, folder, image_files, img_pos, features,
                   real_features, gen_features, log, fid_score, num_subsets,
                   max_subset_size, m, n, kid_score>>
    /\ UNCHANGED <<varsMiou, varsAp>>

\* lines 141 and 142: kid_score = t / (num_subsets * m); t is the Python
\* float 0.0 when the loop never ran, and dividing it by the int 0 raises
KidReturn ==
    /\ pc = "kid_loop"
    /\ subset >= num_subsets
    /\ pc' = "done"
    /\ IF num_subsets * m = 0
       THEN /\ outcome' = ErrZeroDivision
            /\ UNCHANGED kid_score
       ELSE /\ outcome' = "return"
            /\ kid_score' = RDiv(t, Rat(num_subsets * m, 1))
    /\ UNCHANGED <<fn, real_dir, gen_dir, folder, image_files, img_pos, features,
                   real_features, gen_features, log, fid_score, num_subsets,
                   max_subset_size, m, n, t, subset, idx_real, idx_gen>>
    /\ UNCHANGED <<varsMiou, varsAp>>

\* the folders of a calculate_kid call: at most maxLen copies of one image
\* at the top level, each decoding or not
KidListings(maxLen) ==
    UNION {[1..len -> [name : {NameUpperPng}, sub : {FALSE}, decodes : BOOLEAN,
                       content : {1}]] : len \in 0..maxLen}

InitKid ==
    /\ pc = "list"
    /\ outcome = "running"
    /\ fn = "kid"
    /\ real_dir \in KidListings(MaxRows)
    /\ gen_dir \in KidListings(MaxRows)
    /\ folder = "real"
    /\ image_files = <<>>
    /\ img_pos = 0
    /\ features = <<>>
    /\ real_features = <<>>
    /\ gen_features = <<>>
    /\ log = <<>>
    /\ fid_score = <<>>
    /\ num_subsets \in 0..MaxSubsets
    /\ max_subset_size \in 1..MaxRows
    /\ m = 0
    /\ n = 0
    /\ t = Zero
    /\ subset = 0
    /\ idx_real = <<>>
    /\ idx_gen = <<>>
    /\ kid_score = NoValue
    /\ IdleMiou
    /\ IdleAp

NextKid ==
    ListFiles \/ ProcessFile \/ FinishExtract \/ KidSubsetSize \/ KidSubset \/ KidReturn

SpecKid == InitKid /\ [][NextKid]_vars

\* the feature matrices of two folders whose files all decode
FeatureMatrices(maxRows) ==
    UNION {[1..len -> {Embed(c) : c \in 0..MaxFeat}] : len \in 2..maxRows}

\* calculate_kid from line 113 on, on the feature matrices of two folders of
\* at least two images
InitKidFeatures ==
    /\ pc = "kid"
    /\ outcome = "running"
    /\ fn = "kid"
    /\ real_dir = <<>>
    /\ gen_dir = <<>>
    /\ folder = "gen"
    /\ image_files = <<>>
    /\ img_pos = 0
    /\ features = <<>>
    /\ real_features \in FeatureMatrices(MaxRows)
    /\ gen_features \in FeatureMatrices(MaxRows)
    /\ log = <<>>
    /\ fid_score = <<>>
    /\ num_subsets \in 1..MaxSubsets
    /\ max_subset_size \in 2..MaxRows
    /\ m = 0
    /\ n = 0
    /\ t = Zero
    /\ subset = 0
    /\ idx_real = <<>>
    /\ idx_gen = <<>>
    /\ kid_score = NoValue
    /\ IdleMiou
    /\ IdleAp

NextKidFeatures == KidSubsetSize \/ KidSubset \/ KidReturn

SpecKidFeatures == InitKidFeatures /\ [][NextKidFeatures]_vars

----------------------------------------------------------------------------
(* Claims about compute_miou *)

Cells == DOMAIN pred_masks
InterCells(c) == {k \in Cells : pred_masks[k] = c /\ true_masks[k] = c}
UnionCells(c) == {k \in Cells : pred_masks[k] = c \/ true_masks[k] = c}
DefinedClasses == {c \in 0..(num_classes - 1) : UnionCells(c) # {}}

RECURSIVE SumIoUOver(_)
SumIoUOver(S) ==
    IF S = {} THEN Zero
    ELSE LET c == CHOOSE x \in S : TRUE
         IN  RAdd(Rat(Cardinality(InterCells(c)), Cardinality(UnionCells(c))),
                  SumIoUOver(S \ {c}))

\* C1: the result of compute_miou is the arithmetic mean of
\* intersection_c / union_c over exactly the classes of [0, C) whose union is
\* not empty; a class absent from both grids enters neither the sum nor the
\* count. pred=[[0,1],[1,1]], true=[[0,0],[1,1]], C=2 gives 7/12.
C1_MiouIsMeanOverDefinedClasses ==
    pc = "done" =>
        /\ DefinedClasses # {} =>
             miou = RDiv(SumIoUOver(DefinedClasses),
                         Rat(Cardinality(DefinedClasses), 1))
        /\ (/\ pred_masks = <<0, 1, 1, 1>>
            /\ true_masks = <<0, 0, 1, 1>>
            /\ num_classes = 2) => miou = Rat(7, 12)

\* a finished call in which one class of [0, C) is absent from both grids
\* and another is present and imperfectly predicted
C1_Witness ==
    /\ pc = "done"
    /\ \E c \in 0..(num_classes - 1) : UnionCells(c) = {}
    /\ \E c \in 0..(num_classes - 1) :
         UnionCells(c) # {} /\ InterCells(c) # UnionCells(c)
    /\ ~miou.nan

\* C2: compute_miou always returns; the result is NaN exactly when no class
\* of [0, C) has a nonempty union, and otherwise lies in [0, 1].
C2_MiouNaNIffNoDefinedClass ==
    pc = "done" =>
        /\ outcome = "return"
        /\ miou.nan <=> DefinedClasses = {}
        /\ ~miou.nan => RLeq(Zero, miou) /\ RLeq(miou, Rat(1, 1))

\* a finished call with C > 0 on nonempty grids whose values all lie
\* outside [0, C): the result is NaN
C2_Witness ==
    /\ pc = "done"
    /\ num_classes > 0
    /\ Cells # {}
    /\ \A k \in Cells : pred_masks[k] >= num_classes /\ true_masks[k] >= num_classes
    /\ miou.nan

----------------------------------------------------------------------------
(* Claims about compute_ap *)

MinOf(a, b) == IF a <= b THEN a ELSE b

\* C6: compute_ap returns exactly 0 when both input sequences are empty, and
\* otherwise the sum of the per-sample AP values divided by the number of
\* samples processed.
C6_ApIsMeanOfSampleAPs ==
    pc = "done" =>
        /\ (n_real_masks = 0 /\ n_pred_probs = 0) => ap_score = Zero
        /\ total_samples > 0 =>
             /\ Len(sample_aps) = total_samples
             /\ ap_score = RDiv(RSumSeq(sample_aps), Rat(total_samples, 1))

\* a finished call that processed two samples of different, nonzero AP
C6_Witness ==
    /\ pc = "done"
    /\ total_samples = 2
    /\ sample_aps[1] # sample_aps[2]
    /\ sample_aps[1] # Zero
    /\ sample_aps[2] # Zero

\* the classes of the held pair that have at least one ground-truth pixel
PresentClasses == {c \in ClassesOf(pred) : \E k \in 1..Len(real) : real[k] = c}

\* the AP of the held pair computed from the classes of S alone
APOverClasses(S) ==
    LET oh == OneHot(real, Len(pred[1]))
        P == [c \in S |-> ClassPrecision(oh, sorted_indices[c], c)]
        R == [c \in S |-> ClassRecall(oh, sorted_indices[c], c)]
    IN  Trapz(StackMean(S, P, Len(real)), StackMean(S, R, Len(real)))

\* C7: a class without a ground-truth positive pixel in a sample does not
\* enter the class-averaged precision and recall arrays: the sample's AP is
\* the AP computed from the classes that have a positive pixel.
C7_AbsentClassExcluded ==
    total_samples > 0 => sample_ap = APOverClasses(PresentClasses)

\* C10: sequences of different lengths raise nothing: exactly
\* min(len(real_masks), len(pred_probs)) samples are processed and the
\* accumulated AP is divided by that count (0 is returned when it is 0).
C10_ApPairsUpToShorter ==
    /\ total_samples <= MinOf(n_real_masks, n_pred_probs)
    /\ pc = "done" =>
         /\ outcome = "return"
         /\ total_samples = MinOf(n_real_masks, n_pred_probs)
         /\ Len(sample_aps) = MinOf(n_real_masks, n_pred_probs)
         /\ ap_score = IF MinOf(n_real_masks, n_pred_probs) = 0 THEN Zero
                       ELSE RDiv(RSumSeq(sample_aps),
                                 Rat(MinOf(n_real_masks, n_pred_probs), 1))

\* a finished call on sequences of different lengths that processed a sample
\* of nonzero AP
C10_Witness ==
    /\ pc = "done"
    /\ n_real_masks # n_pred_probs
    /\ total_samples >= 1
    /\ ap_score # Zero

----------------------------------------------------------------------------
(* Claims about extract_features and calculate_fid *)

Folders == {"real", "gen"}
Listed(f) == \E k \in DOMAIN log : log[k] = <<"list", f>>
Opened(f) == {j \in 1..Len(DirOf(f)) : \E k \in DOMAIN log : log[k] = <<"open", f, j>>}

\* the files of folder f that extract_features is to see, and those among
\* them that decode
Matching(f) == SelectSeq(DirOf(f), LAMBDA e : IsImageFile(e.name) /\ (f = "real" \/ ~e.sub))
Decoding(files) == SelectSeq(files, LAMBDA e : e.decodes)
RowsOf(files) == [k \in 1..Len(files) |-> Embed(files[k].content)]

Raised(f) == pc = "done" /\ folder = f /\ outcome \in EmptyInputError
InLoop(f) == pc = "loop" /\ folder = f
FeaturesOf(f) == IF f = "real" THEN real_features ELSE gen_features

\* C3: (1) a folder without image files raises the empty-input error before
\* any file is opened; (2) a file that fails is skipped and the loop goes on;
\* (3) when every image file fails the error is raised after the last file;
\* (4) otherwise the matrix returned holds the embeddings of exactly the
\* files that were processed successfully, one row each, in enumeration order.
C3_ExtractSkipsFailedFiles ==
    \A f \in Folders :
        Listed(f) =>
          /\ Matching(f) = <<>> =>
               Raised(f) /\ outcome = ErrNoFiles /\ Opened(f) = {}
          /\ Matching(f) # <<>> => ~(Raised(f) /\ outcome = ErrNoFiles)
          /\ InLoop(f) =>
               /\ outcome = "running"
               /\ Opened(f) = 1..img_pos
               /\ features = RowsOf(Decoding(SubSeq(Matching(f), 1, img_pos)))
          /\ (Matching(f) # <<>> /\ ~InLoop(f)) =>
               /\ Opened(f) = 1..Len(Matching(f))
               /\ IF Decoding(Matching(f)) = <<>>
                  THEN Raised(f) /\ outcome = ErrNoFeatures
                  ELSE /\ ~Raised(f)
                       /\ FeaturesOf(f) = RowsOf(Decoding(Matching(f)))

\* the real folder's features were returned although an image file of it
\* failed before a later one succeeded
C3_Witness ==
    /\ real_features # <<>>
    /\ \E i, j \in 1..Len(Matching("real")) :
         /\ i < j
         /\ ~Matching("real")[i].decodes
         /\ Matching("real")[j].decodes

\* the valid images of the two folders: real searched recursively, generated
\* at its top level only
ValidReal == {k \in DOMAIN real_dir : IsImageFile(real_dir[k].name) /\ real_dir[k].decodes}
ValidGen == {k \in DOMAIN gen_dir :
                IsImageFile(gen_dir[k].name) /\ gen_dir[k].decodes /\ ~gen_dir[k].sub}

\* C9: calculate_fid raises the empty-input error whenever one of the two
\* folders yields no valid image (real searched recursively, generated at
\* its top level only) and returns no score then; with an empty real set the
\* error is raised before the generated folder is enumerated.
C9_FidRaisesOnEmptyFolder ==
    /\ pc = "fid" => ValidReal # {} /\ ValidGen # {}
    /\ (pc = "done" /\ (ValidReal = {} \/ ValidGen = {})) =>
         /\ outcome \in EmptyInputError
         /\ fid_score = <<>>
    /\ ValidReal = {} => ~Listed("gen") /\ folder = "real"

\* the call raised the empty-input error for a generated folder whose only
\* valid images lie in a subdirectory, after the real features were built
C9_Witness ==
    /\ pc = "done"
    /\ outcome \in EmptyInputError
    /\ ValidReal # {}
    /\ ValidGen = {}
    /\ \E k \in DOMAIN gen_dir :
         IsImageFile(gen_dir[k].name) /\ gen_dir[k].decodes /\ gen_dir[k].sub

----------------------------------------------------------------------------
(* Claims about calculate_kid *)

\* the subset size the two folders and the cap call for
ExpectedM == Min3(Cardinality(ValidReal), Cardinality(ValidGen), max_subset_size)

\* idx holds m distinct row indices of a matrix of N rows
IsDraw(idx, N) ==
    /\ Len(idx) = m
    /\ \A i \in 1..Len(idx) : idx[i] \in 1..N
    /\ \A i, j \in 1..Len(idx) : i # j => idx[i] # idx[j]

\* C4: with m = min(real rows, generated rows, max_subset_size), m < 2 makes
\* calculate_kid raise the insufficient-samples error before any subset is
\* drawn, with no score; with m >= 2 every iteration draws exactly m distinct
\* in-range row indices from each set, so m >= 2 wherever an estimate is
\* computed.
C4_KidSubsetSizeAtLeastTwo ==
    /\ (pc = "done" /\ outcome = ErrFewSamples) =>
         /\ ExpectedM < 2
         /\ subset = 0
         /\ idx_real = <<>>
         /\ idx_gen = <<>>
         /\ kid_score = NoValue
    /\ (gen_features # <<>> /\ pc # "kid" /\ ExpectedM < 2) =>
         pc = "done" /\ outcome = ErrFewSamples
    /\ pc = "kid_loop" => m = ExpectedM /\ m >= 2
    /\ subset > 0 =>
         /\ m = ExpectedM
         /\ m >= 2
         /\ IsDraw(idx_real, Len(real_features))
         /\ IsDraw(idx_gen, Len(gen_features))

\* the second of two subsets was drawn, two rows out of three, in an order
\* that is not the rows' own
C4_Witness ==
    /\ pc = "kid_loop"
    /\ subset = 2
    /\ m = 2
    /\ Len(real_features) = 3
    /\ idx_real = <<3, 1>>

\* C5: every call of calculate_kid with num_subsets >= 0 ends by returning a
\* score, by the empty-input error or by the insufficient-samples error.
C5_KidEndsInOneOfThreeOutcomes ==
    pc = "done" => outcome \in ({"return"} \cup EmptyInputError \cup {ErrFewSamples})

\* the row orders of a matrix of N rows
Perms(N) == {p \in [1..N -> 1..N] : \A i, j \in 1..N : i # j => p[i] # p[j]}
Permute(F, p) == [k \in 1..Len(p) |-> F[p[k]]]

\* the draws of k out of N rows that list the rows in increasing order
IncreasingDraws(N, k) == {d \in [1..k -> 1..N] : \A i \in 1..(k - 1) : d[i] < d[i + 1]}

\* the estimates of the subsets of size mm of the matrices R and G
EstimatesOn(R, G, mm, dim) ==
    {SubsetEstimate(Permute(G, ig), Permute(R, ir), dim) :
        ir \in IncreasingDraws(Len(R), mm), ig \in IncreasingDraws(Len(G), mm)}

\* the sums of k estimates
RECURSIVE SumsOf(_, _)
SumsOf(E, k) ==
    IF k = 0 THEN {Zero}
    ELSE {RAdd(a, b) : a \in SumsOf(E, k - 1), b \in E}

\* scores calculate_kid can return on the matrices R and G
ScoresOn(R, G, k, mm, dim) ==
    {RDiv(total, Rat(k * mm, 1)) : total \in SumsOf(EstimatesOn(R, G, mm, dim), k)}

\* C8: the score calculate_kid returns can be returned on every reordering
\* of the rows of the real matrix and on every reordering of the rows of the
\* generated matrix (and so, the matrices ranging over a set closed under
\* reordering, on every reordering of both); when m equals both row counts
\* the score is one value, whatever is drawn.
C8_KidRowOrderInvariant ==
    (pc = "done" /\ outcome = "return") =>
        /\ \A p \in Perms(Len(real_features)) :
             kid_score \in ScoresOn(Permute(real_features, p), gen_features,
                                    num_subsets, m, n)
        /\ \A q \in Perms(Len(gen_features)) :
             kid_score \in ScoresOn(real_features, Permute(gen_features, q),
                                    num_subsets, m, n)
        /\ (m = Len(real_features) /\ m = Len(gen_features)) =>
             kid_score = RDiv(RMul(Rat(num_subsets, 1),
                                   SubsetEstimate(gen_features, real_features, n)),
                              Rat(num_subsets * m, 1))

\* a score was returned from two subsets of two rows out of three, drawn
\* from matrices whose rows differ, the last draw not in the rows' order
C8_Witness ==
    /\ pc = "done"
    /\ outcome = "return"
    /\ num_subsets = 2
    /\ m = 2
    /\ Len(real_features) = 3
    /\ Len(gen_features) = 3
    /\ real_features[1] # real_features[2]
    /\ gen_features[2] # gen_features[3]
    /\ idx_real = <<3, 1>>
    /\ kid_score # Zero

====
